---- MODULE Spec2Model ----
(***************************************************************************)
(* Doubly linked list of src/data_structures/linkedlist.rs:                *)
(* LinkedList<T> { head_and_tail: Option<[Link<T>; 2]>, len: usize },      *)
(* Link<T> = Rc<RefCell<Box<Node<T>>>>, and the forward iterator           *)
(* LinkedListIter<T> { cursor: Option<Link<T>> }.                          *)
(*                                                                         *)
(* The heap is a finite pool of node cells.  Every cell carries the strong *)
(* count of its Rc; a cell whose count reaches zero is deallocated, which  *)
(* releases the links it holds.                                            *)
(***************************************************************************)
EXTENDS Integers, Sequences, FiniteSets, TLC

\* ---- bounds ----
MaxNodes == 3      \* cells in the heap pool; push needs a free cell
MaxVal == 2        \* data values are 1..MaxVal
NumIters == 2      \* iterator objects that may be created
MaxYield == 4      \* values one iterator is followed for
MaxOps == 6        \* calls recorded by the call history (SpecHist)

\* ---- encoding of Option ----
Null == 0          \* Option<Link<T>>::None
NoneVal == 0       \* Option<Rc<T>>::None
NoneHT == <<>>     \* head_and_tail: None

Nodes == 1..MaxNodes
Values == 1..MaxVal
IterIds == 1..NumIters

\* enum Where and its conversion to an array index
AtHead == "Head"
AtTail == "Tail"
\* variant: the two indices are exchanged
Index_swapped(w) == IF w = AtHead THEN 1 ELSE 0

Index(w) == IF w = AtHead THEN 0 ELSE 1

VARIABLES
    heap,           \* Nodes -> [data, prev, next, rc]: the Rc<RefCell<Box<Node>>> cells
    head_and_tail,  \* LinkedList.head_and_tail: NoneHT or <<head, tail>>
    len,            \* LinkedList.len
    dropped,        \* the list value has been moved into into_iter and dropped
    iters,          \* IterIds -> LinkedListIter objects (with their history)
    ret,            \* value returned by the last call (NoneVal for None or unit)
    last,           \* name of the last call
    abs,            \* history: the abstract double-ended sequence
    absRet,         \* history: what the abstract sequence returned for the last call
    hist            \* history: the calls made on the list so far (SpecHist only)

vars == <<heap, head_and_tail, len, dropped, iters, ret, last, abs, absRet, hist>>

\* ------------------------------------------------------------------------
\* Rc and Node
\* ------------------------------------------------------------------------

\* a cell that is not allocated
FreeNode == [data |-> NoneVal, prev |-> Null, next |-> Null, rc |-> 0]

FreeIds(h) == {n \in Nodes : h[n].rc = 0}

\* the allocator hands out the lowest free cell
FreeId(h) == CHOOSE n \in FreeIds(h) : \A m \in FreeIds(h) : n <= m

\* Rc::clone of an Option<Link>: one more strong reference
CloneLink(h, n) == IF n = Null THEN h ELSE [h EXCEPT ![n].rc = @ + 1]

\* drop of an Option<Link>: one strong reference less; the last one frees the
\* node, which drops the node's own prev and next links in turn
RECURSIVE DropLink(_, _)
DropLink(h, n) ==
    IF n = Null THEN h
    ELSE IF h[n].rc > 1 THEN [h EXCEPT ![n].rc = @ - 1]
    ELSE IF h[n].rc = 1
         THEN DropLink(DropLink([h EXCEPT ![n] = FreeNode], h[n].prev), h[n].next)
         ELSE h

\* Node::new_link: a fresh cell n holding data, both links None, one reference
new_link(h, n, data) ==
    [h EXCEPT ![n] = [data |-> data, prev |-> Null, next |-> Null, rc |-> 1]]

\* Node::get_prev / get_next / get_data (the caller accounts for the clone)
get_prev(h, n) == h[n].prev
get_next(h, n) == h[n].next
get_data(h, n) == h[n].data

\* set_prev / set_next: store other (moved in), dropping the link stored before
set_prev(h, s, other) == DropLink([h EXCEPT ![s].prev = other], h[s].prev)
set_next(h, s, other) == DropLink([h EXCEPT ![s].next = other], h[s].next)

\* ------------------------------------------------------------------------
\* LinkedList
\* ------------------------------------------------------------------------

\* LinkedList::new
new == [heap |-> [n \in Nodes |-> FreeNode], head_and_tail |-> NoneHT, len |-> 0]

\* variant: setter1 is taken the wrong way round
push_setter1_swapped(w, h, s, other) ==
    IF w = AtHead THEN set_next(h, s, other) ELSE set_prev(h, s, other)

\* variant: the new node's link to the old end node is not set
push_setter2_noop(w, h, s, other) == h

\* variant: setter2 is set_next for both ends
push_setter2_always_next(w, h, s, other) == set_next(h, s, other)

\* variant: setter2 is taken the wrong way round
push_setter2_swapped(w, h, s, other) ==
    IF w = AtHead THEN set_prev(h, s, other) ELSE set_next(h, s, other)

\* the (setter1, setter2) pair push_helper selects
push_setter1(w, h, s, other) ==
    IF w = AtHead THEN set_prev(h, s, other) ELSE set_next(h, s, other)
push_setter2(w, h, s, other) ==
    IF w = AtHead THEN set_next(h, s, other) ELSE set_prev(h, s, other)

push_helper(L, data, w) ==
    LET new_node == FreeId(L.heap)
        h0 == new_link(L.heap, new_node, data)
        len1 == L.len + 1
    IN  IF L.head_and_tail = NoneHT
        THEN [heap |-> CloneLink(h0, new_node),
              head_and_tail |-> <<new_node, new_node>>,
              len |-> len1]
        ELSE LET update_index == Index(w)
                 e == L.head_and_tail[update_index + 1]
                 h1 == push_setter1(w, CloneLink(h0, new_node), e, new_node)
                 h2 == push_setter2(w, CloneLink(h1, e), new_node, e)
                 \* the assignment to the slot releases the link it held
                 h3 == DropLink(h2, e)
             IN  [heap |-> h3,
                  head_and_tail |-> [L.head_and_tail EXCEPT ![update_index + 1] = new_node],
                  len |-> len1]

push(L, data) == push_helper(L, data, AtTail)

\* variant: push_front passes the wrong end
push_front_at_tail(L, data) == push_helper(L, data, AtTail)

push_front(L, data) == push_helper(L, data, AtHead)

\* variant: the getter pair is taken the wrong way round
pop_getter_swapped(w, h, n) == IF w = AtHead THEN get_prev(h, n) ELSE get_next(h, n)

\* variant: both ends read the prev link
pop_getter_always_prev(w, h, n) == get_prev(h, n)

\* the (getter, setter) pair pop_helper selects
pop_getter(w, h, n) == IF w = AtHead THEN get_next(h, n) ELSE get_prev(h, n)
\* variant: the promoted node's link to the removed node is not cleared
pop_setter_noop(w, h, s, other) == h

\* variant: only the head arm clears the promoted node's link
pop_setter_keeps(w, h, s, other) ==
    IF w = AtHead THEN set_prev(h, s, other) ELSE h

\* variant: the setter pair is taken the wrong way round
pop_setter_swapped(w, h, s, other) ==
    IF w = AtHead THEN set_next(h, s, other) ELSE set_prev(h, s, other)

pop_setter(w, h, s, other) ==
    IF w = AtHead THEN set_prev(h, s, other) ELSE set_next(h, s, other)

\* variant: len is decremented outside the closure, also when nothing is removed
pop_none_decrements(L) == [st |-> [L EXCEPT !.len = @ - 1], ret |-> NoneVal]

\* head_and_tail is None: the closure of map is not run, nothing is assigned
pop_none(L) == [st |-> L, ret |-> NoneVal]

\* head_and_tail is Some: the closure of map, then the zeroing of the pair
pop_some(L, w) ==
    LET update_index == Index(w)
        old == L.head_and_tail[update_index + 1]
        h0 == CloneLink(L.heap, old)
        link == pop_getter(w, h0, old)
        old_data == get_data(h0, old)
    IN  IF link = Null
        THEN \* need_to_zero_head_and_tail: the local old is released at the
             \* end of the closure, then both slots
             LET h1 == DropLink(h0, old)
                 h2 == DropLink(DropLink(h1, L.head_and_tail[1]), L.head_and_tail[2])
             IN  [st |-> [heap |-> h2, head_and_tail |-> NoneHT, len |-> L.len - 1],
                  ret |-> old_data]
        ELSE LET h1 == DropLink(CloneLink(h0, link), old)   \* slot := link
                 h2 == pop_setter(w, h1, link, Null)
                 h3 == DropLink(h2, old)                    \* the local old
             IN  [st |-> [heap |-> h3,
                          head_and_tail |-> [L.head_and_tail EXCEPT ![update_index + 1] = link],
                          len |-> L.len - 1],
                  ret |-> old_data]

\* variant: the setter runs before the slot is given the neighbour, so it
\* borrows the removed node
pop_borrows_setter_first(L, w) ==
    LET old == L.head_and_tail[Index(w) + 1]
        link == pop_getter(w, L.heap, old)
    IN  [held |-> {old}, mut |-> IF link = Null THEN {} ELSE {old}]

\* the RefCell borrows inside the closure of pop_helper on a non-empty list:
\* old stays borrowed until the closure ends, and the setter mutably borrows
\* the node the slot holds by then, which is link
pop_borrows(L, w) ==
    LET old == L.head_and_tail[Index(w) + 1]
        link == pop_getter(w, L.heap, old)
    IN  [held |-> {old}, mut |-> IF link = Null THEN {} ELSE {link}]

\* the RefCell borrows of push_helper on a non-empty list: setter1 mutably
\* borrows the end node and setter2 the new node, each for the length of the
\* call, with no other borrow held
push_borrows(L, w) ==
    {[held |-> {}, mut |-> {L.head_and_tail[Index(w) + 1]}],
     [held |-> {}, mut |-> {FreeId(L.heap)}]}

\* the RefCell borrow of LinkedListIter::next: the cursor node, shared, for
\* the length of the match arm, with no other borrow held
next_borrows(c) == [held |-> {}, shared |-> IF c = Null THEN {} ELSE {c}, mut |-> {}]

\* borrow_mut panics when the cell is already borrowed
BorrowConflict(b) == b.mut \cap b.held # {}

\* returns the list afterwards and the popped value
pop_helper(L, w) ==
    IF L.head_and_tail = NoneHT THEN pop_none(L) ELSE pop_some(L, w)

\* variant: pop passes the wrong end
pop_at_head(L) == pop_helper(L, AtHead)

pop(L) == pop_helper(L, AtTail)

\* variant: pop_front passes the wrong end
pop_front_at_tail(L) == pop_helper(L, AtTail)

pop_front(L) == pop_helper(L, AtHead)

\* variant: the cursor starts on slot 1 (the tail) instead of slot 0
iter_from_tail(L) ==
    IF L.head_and_tail = NoneHT
    THEN [heap |-> L.heap, cursor |-> Null]
    ELSE [heap |-> CloneLink(L.heap, L.head_and_tail[2]), cursor |-> L.head_and_tail[2]]

\* LinkedList::iter: a cursor on a clone of the head link
iter(L) ==
    IF L.head_and_tail = NoneHT
    THEN [heap |-> L.heap, cursor |-> Null]
    ELSE [heap |-> CloneLink(L.heap, L.head_and_tail[1]), cursor |-> L.head_and_tail[1]]

\* the drop of the list value: both slots are released
drop_list(h, ht) ==
    IF ht = NoneHT THEN h ELSE DropLink(DropLink(h, ht[1]), ht[2])

\* variant: the cursor does not own a reference of its own to the head node
into_iter_no_clone(L) ==
    [heap |-> drop_list(L.heap, L.head_and_tail),
     cursor |-> IF L.head_and_tail = NoneHT THEN Null ELSE L.head_and_tail[1]]

\* IntoIterator::into_iter: self.iter(), then self goes out of scope
into_iter(L) ==
    LET it == iter(L)
    IN  [heap |-> drop_list(it.heap, L.head_and_tail), cursor |-> it.cursor]

\* variant: end of sequence is reported on the node that has no successor,
\* with the cursor left on it
iter_next_stops_at_last(h, c) ==
    IF c = Null \/ get_next(h, c) = Null
    THEN [heap |-> h, cursor |-> c, ret |-> NoneVal]
    ELSE [heap |-> DropLink(CloneLink(h, get_next(h, c)), c),
          cursor |-> get_next(h, c), ret |-> get_data(h, c)]

\* variant: the successor link is moved out of the node instead of cloned
iter_next_takes(h, c) ==
    IF c = Null
    THEN [heap |-> h, cursor |-> Null, ret |-> NoneVal]
    ELSE [heap |-> DropLink([h EXCEPT ![c].next = Null], c),
          cursor |-> get_next(h, c), ret |-> get_data(h, c)]

\* LinkedListIter::next on cursor c
iter_next(h, c) ==
    IF c = Null
    THEN [heap |-> h, cursor |-> Null, ret |-> NoneVal]
    ELSE LET yield_data == get_data(h, c)
             next_node == get_next(h, c)
             \* self.cursor = next_node releases the old cursor
             h1 == DropLink(CloneLink(h, next_node), c)
         IN  [heap |-> h1, cursor |-> next_node, ret |-> yield_data]

\* ------------------------------------------------------------------------
\* Observations of a list state
\* ------------------------------------------------------------------------

\* the list value as the operations above take it
List == [heap |-> heap, head_and_tail |-> head_and_tail, len |-> len]

\* nodes met by following f ("next" or "prev") from n, at most fuel of them
RECURSIVE Walk(_, _, _, _)
Walk(h, n, f, fuel) ==
    IF n = Null \/ fuel = 0 THEN <<>>
    ELSE <<n>> \o Walk(h, IF f = "next" THEN h[n].next ELSE h[n].prev, f, fuel - 1)

\* nodes reachable by next from head, and by prev from tail
ForwardNodes(L) ==
    IF L.head_and_tail = NoneHT THEN <<>>
    ELSE Walk(L.heap, L.head_and_tail[1], "next", MaxNodes + 1)
BackwardNodes(L) ==
    IF L.head_and_tail = NoneHT THEN <<>>
    ELSE Walk(L.heap, L.head_and_tail[2], "prev", MaxNodes + 1)

DataOf(h, ns) == [i \in 1..Len(ns) |-> h[ns[i]].data]
ForwardVals(L) == DataOf(L.heap, ForwardNodes(L))

\* the nodes of the list
ListNodes(L) ==
    {ForwardNodes(L)[k] : k \in 1..Len(ForwardNodes(L))}
        \cup {BackwardNodes(L)[k] : k \in 1..Len(BackwardNodes(L))}

\* the cells that are allocated
Allocated(h) == {n \in Nodes : h[n].rc > 0}

Reverse(s) == [i \in 1..Len(s) |-> s[Len(s) + 1 - i]]

\* the values an iterator on cursor c yields until it returns None
RECURSIVE Collect(_, _, _)
Collect(h, c, fuel) ==
    LET r == iter_next(h, c)
    IN  IF r.ret = NoneVal \/ fuel = 0 THEN <<>>
        ELSE <<r.ret>> \o Collect(r.heap, r.cursor, fuel - 1)

\* list.iter().collect()
IterCollect(L) == LET it == iter(L) IN Collect(it.heap, it.cursor, MaxNodes + 1)

\* the number of Some results of repeated pop() calls until the first None
RECURSIVE DrainCount(_, _)
DrainCount(L, fuel) ==
    LET r == pop(L)
    IN  IF r.ret = NoneVal \/ fuel = 0 THEN 0 ELSE 1 + DrainCount(r.st, fuel - 1)

\* ------------------------------------------------------------------------
\* State machine
\* ------------------------------------------------------------------------

\* an iterator object: cursor is the field of LinkedListIter; the others are
\* history: yielded (values returned so far), done (next has returned None),
\* mutated (the list was modified since the iterator was created), snap (what
\* iter().collect() gave when it was created), consuming (made by into_iter),
\* grown (elements were pushed after next returned None)
NoIter == [live |-> FALSE, cursor |-> Null, yielded |-> <<>>, done |-> FALSE,
           mutated |-> FALSE, snap |-> <<>>, consuming |-> FALSE, grown |-> FALSE]

Call(op, i) == [op |-> op, it |-> i]
ListCalls == {"push", "push_front", "pop", "pop_front"}

Init ==
    /\ heap = new.heap
    /\ head_and_tail = new.head_and_tail
    /\ len = new.len
    /\ dropped = FALSE
    /\ iters = [i \in IterIds |-> NoIter]
    /\ ret = NoneVal
    /\ last = Call("new", 0)
    /\ abs = <<>>
    /\ absRet = NoneVal
    /\ hist = <<>>

\* the list becomes L2; live iterators note that the list changed under them.
\* The history fields yielded and snap are kept only for iterators whose list
\* has not been modified since they were created.
SetList(L2) ==
    /\ heap' = L2.heap
    /\ head_and_tail' = L2.head_and_tail
    /\ len' = L2.len
    /\ iters' = [i \in IterIds |->
                   IF iters[i].live /\ L2 # List
                   THEN [iters[i] EXCEPT !.mutated = TRUE, !.yielded = <<>>, !.snap = <<>>,
                                         !.grown = @ \/ (iters[i].done /\ L2.len > len)]
                   ELSE iters[i]]
    /\ UNCHANGED dropped

Push(x) ==
    /\ ~dropped
    /\ FreeIds(heap) # {}
    /\ SetList(push(List, x))
    /\ ret' = NoneVal
    /\ last' = Call("push", 0)
    /\ abs' = Append(abs, x)
    /\ absRet' = NoneVal

PushFront(x) ==
    /\ ~dropped
    /\ FreeIds(heap) # {}
    /\ SetList(push_front(List, x))
    /\ ret' = NoneVal
    /\ last' = Call("push_front", 0)
    /\ abs' = <<x>> \o abs
    /\ absRet' = NoneVal

Pop ==
    /\ ~dropped
    /\ LET r == pop(List) IN SetList(r.st) /\ ret' = r.ret
    /\ last' = Call("pop", 0)
    /\ abs' = IF abs = <<>> THEN abs ELSE SubSeq(abs, 1, Len(abs) - 1)
    /\ absRet' = IF abs = <<>> THEN NoneVal ELSE abs[Len(abs)]

PopFront ==
    /\ ~dropped
    /\ LET r == pop_front(List) IN SetList(r.st) /\ ret' = r.ret
    /\ last' = Call("pop_front", 0)
    /\ abs' = IF abs = <<>> THEN abs ELSE SubSeq(abs, 2, Len(abs))
    /\ absRet' = IF abs = <<>> THEN NoneVal ELSE abs[1]

\* iterator objects are created in slot order
FreeSlot(i) == ~iters[i].live /\ \A j \in 1..(i - 1) : iters[j].live

NewIter(c, L, consuming) ==
    [live |-> TRUE, cursor |-> c, yielded |-> <<>>, done |-> FALSE,
     mutated |-> FALSE, snap |-> IterCollect(L), consuming |-> consuming, grown |-> FALSE]

Iter(i) ==
    /\ ~dropped
    /\ FreeSlot(i)
    /\ LET it == iter(List)
       IN  /\ heap' = it.heap
           /\ iters' = [iters EXCEPT ![i] = NewIter(it.cursor, List, FALSE)]
    /\ ret' = NoneVal
    /\ last' = Call("iter", 0)
    /\ UNCHANGED <<head_and_tail, len, dropped, abs, absRet>>

IntoIter(i) ==
    /\ ~dropped
    /\ FreeSlot(i)
    /\ LET it == into_iter(List)
       IN  /\ heap' = it.heap
           /\ iters' = [iters EXCEPT ![i] = NewIter(it.cursor, List, TRUE)]
    /\ head_and_tail' = NoneHT
    /\ dropped' = TRUE
    /\ ret' = NoneVal
    /\ last' = Call("into_iter", 0)
    /\ UNCHANGED <<len, abs, absRet>>

\* the list value goes out of scope
Drop ==
    /\ ~dropped
    /\ heap' = drop_list(heap, head_and_tail)
    /\ head_and_tail' = NoneHT
    /\ dropped' = TRUE
    /\ ret' = NoneVal
    /\ last' = Call("drop", 0)
    /\ UNCHANGED <<len, iters, abs, absRet>>

IterNext(i) ==
    /\ iters[i].live
    /\ iters[i].cursor = Null \/ Len(iters[i].yielded) < MaxYield
    /\ LET r == iter_next(heap, iters[i].cursor)
       IN  /\ heap' = r.heap
           /\ ret' = r.ret
           /\ iters' = [iters EXCEPT ![i].cursor = r.cursor,
                                     ![i].yielded = IF r.ret = NoneVal \/ iters[i].mutated THEN @
                                                    ELSE Append(@, r.ret),
                                     ![i].done = @ \/ r.ret = NoneVal]
    /\ last' = Call("next", i)
    /\ UNCHANGED <<head_and_tail, len, dropped, abs, absRet>>

Next ==
    \/ \E x \in Values : Push(x) /\ UNCHANGED hist
    \/ \E x \in Values : PushFront(x) /\ UNCHANGED hist
    \/ Pop /\ UNCHANGED hist
    \/ PopFront /\ UNCHANGED hist
    \/ \E i \in IterIds : Iter(i) /\ UNCHANGED hist
    \/ \E i \in IterIds : IntoIter(i) /\ UNCHANGED hist
    \/ Drop /\ UNCHANGED hist
    \/ \E i \in IterIds : IterNext(i) /\ UNCHANGED hist

Spec == Init /\ [][Next]_vars

\* ------------------------------------------------------------------------
\* One iterator whose owner keeps calling next()
\* ------------------------------------------------------------------------

\* a call that modifies the list
Mutation ==
    \/ \E x \in Values : Push(x)
    \/ \E x \in Values : PushFront(x)
    \/ Pop
    \/ PopFront

NextOne ==
    \/ \E x \in Values : Push(x) /\ UNCHANGED hist
    \/ \E x \in Values : PushFront(x) /\ UNCHANGED hist
    \/ Pop /\ UNCHANGED hist
    \/ PopFront /\ UNCHANGED hist
    \/ Iter(1) /\ UNCHANGED hist
    \/ IterNext(1) /\ UNCHANGED hist

\* the owner of the iterator calls next() again and again
SpecFair == Init /\ [][NextOne]_vars /\ WF_vars(IterNext(1) /\ UNCHANGED hist)

\* ------------------------------------------------------------------------
\* The list alone, with the history of the calls made on it
\* ------------------------------------------------------------------------

\* the call just made is appended to hist together with what it returned and
\* what the list holds after it
Record(op, arg) ==
    /\ Len(hist) < MaxOps
    /\ hist' = Append(hist, [op |-> op, arg |-> arg, ret |-> ret', len |-> len',
                             vals |-> ForwardVals(List')])

NextHist ==
    \/ \E x \in Values : Push(x) /\ Record("push", x)
    \/ \E x \in Values : PushFront(x) /\ Record("push_front", x)
    \/ Pop /\ Record("pop", NoneVal)
    \/ PopFront /\ Record("pop_front", NoneVal)

SpecHist == Init /\ [][NextHist]_vars

\* ------------------------------------------------------------------------
\* Properties
\* ------------------------------------------------------------------------

AllOps(op) == \A i \in 1..Len(hist) : hist[i].op = op
Args == [i \in 1..Len(hist) |-> hist[i].arg]

\* C1: under any interleaving of push, push_front, pop and pop_front from the
\* empty list, the values read by following next from head equal the abstract
\* double-ended sequence, and every call returns what the abstract sequence
\* returns (pop its last element, pop_front its first, None when empty).
C1_Deque ==
    ~dropped =>
        /\ ForwardVals(List) = abs
        /\ last.op \in ListCalls => ret = absRet

C1_Witness ==
    /\ last.op = "pop_front" /\ ret = 2
    /\ abs = <<1, 2>> /\ ForwardVals(List) = <<1, 2>>

\* C2: after N push calls on a new list (and nothing else), len() is N and
\* iter() yields the pushed values in push order.
C2_PushOrder ==
    AllOps("push") => len = Len(hist) /\ IterCollect(List) = Args

C2_Witness ==
    /\ AllOps("push") /\ Len(hist) = 3
    /\ hist[1].arg # hist[2].arg
    /\ IterCollect(List) = Args

\* C3: after N push_front calls on a new list (and nothing else), len() is N
\* and iter() yields the pushed values in reverse push order.
C3_PushFrontOrder ==
    AllOps("push_front") => len = Len(hist) /\ IterCollect(List) = Reverse(Args)

C3_Witness ==
    /\ AllOps("push_front") /\ Len(hist) = 3
    /\ hist[1].arg # hist[2].arg
    /\ IterCollect(List) = Reverse(Args)

\* C4: pop() and pop_front() on an empty list return None and change nothing:
\* len stays 0, the head/tail pair stays absent, no node is touched.
C4_EmptyPop ==
    [][((Pop \/ PopFront) /\ len = 0) =>
          /\ ret' = NoneVal
          /\ len' = 0
          /\ head_and_tail = NoneHT /\ head_and_tail' = NoneHT
          /\ heap' = heap]_vars

C4_Witness ==
    /\ last.op \in {"pop", "pop_front"} /\ ret = NoneVal
    /\ len = 0 /\ head_and_tail = NoneHT
    /\ \E i \in IterIds : iters[i].live /\ iters[i].mutated

\* what the list held before call i of hist
LenBefore(i) == IF i = 1 THEN 0 ELSE hist[i - 1].len
ValsBefore(i) == IF i = 1 THEN <<>> ELSE hist[i - 1].vals

\* C5: wherever push(x) is immediately followed by pop(), the pop returns x,
\* len() is back to its value before the push and the list holds the same
\* sequence of values as before the push.
C5_PushPop ==
    \A i \in 1..(Len(hist) - 1) :
        (hist[i].op = "push" /\ hist[i + 1].op = "pop") =>
            /\ hist[i + 1].ret = hist[i].arg
            /\ hist[i + 1].len = LenBefore(i)
            /\ hist[i + 1].vals = ValsBefore(i)

C5_Witness ==
    /\ Len(hist) >= 4
    /\ hist[Len(hist) - 1].op = "push" /\ hist[Len(hist)].op = "pop"
    /\ LenBefore(Len(hist) - 1) = 2
    /\ ValsBefore(Len(hist) - 1)[2] # hist[Len(hist) - 1].arg
    /\ ret = hist[Len(hist) - 1].arg

\* C6: after any interleaving of push, push_front, pop and pop_front, len()
\* is the number of nodes met by following next from head (the last of them
\* being the tail), the number met by following prev from tail, and the
\* number of non-empty results of draining the list with repeated pop calls.
C6_LenCounts ==
    ~dropped =>
        /\ len = Len(ForwardNodes(List))
        /\ len = Len(BackwardNodes(List))
        /\ len = DrainCount(List, MaxNodes + 1)
        /\ len > 0 => /\ ForwardNodes(List)[len] = head_and_tail[2]
                      /\ BackwardNodes(List)[len] = head_and_tail[1]

C6_Witness ==
    /\ last.op = "pop" /\ ret # NoneVal
    /\ len = 2 /\ DrainCount(List, MaxNodes + 1) = 2
    /\ Len(ForwardNodes(List)) = 2

\* hist is n push calls followed by n calls of op
PushesThen(op, n) ==
    /\ Len(hist) = 2 * n
    /\ \A i \in 1..n : hist[i].op = "push" /\ hist[n + i].op = op

\* C7: pushing v1..vn on a new list and then calling pop_front n times
\* returns v1..vn in that order; calling pop n times instead returns vn..v1;
\* in both cases the list is empty afterwards.
C7_RoundTrip ==
    \A n \in 0..MaxOps :
        /\ PushesThen("pop_front", n) =>
              /\ \A i \in 1..n : hist[n + i].ret = hist[i].arg
              /\ len = 0 /\ head_and_tail = NoneHT
        /\ PushesThen("pop", n) =>
              /\ \A i \in 1..n : hist[n + i].ret = hist[n + 1 - i].arg
              /\ len = 0 /\ head_and_tail = NoneHT

C7_Witness ==
    /\ PushesThen("pop_front", 3)
    /\ hist[1].arg # hist[2].arg
    /\ \A i \in 1..3 : hist[3 + i].ret = hist[i].arg
    /\ len = 0

\* C8: once next() has returned None on an iterator, every later next() on
\* that iterator returns None, also when elements were pushed onto the list
\* after the iterator was exhausted.
C8_Fused ==
    [][\A i \in IterIds : (iters[i].done /\ IterNext(i)) =>
          /\ ret' = NoneVal
          /\ iters'[i].cursor = Null
          /\ iters'[i].done]_vars

C8_Witness ==
    \E i \in IterIds :
        /\ iters[i].done /\ iters[i].grown
        /\ last = Call("next", i) /\ ret = NoneVal
        /\ len > 0

\* C9: the iterator made by into_iter() yields exactly the sequence iter()
\* would have yielded on the list state it consumed, although the list value
\* is dropped when into_iter returns.
C9_IntoIter ==
    \A i \in IterIds :
        (iters[i].live /\ iters[i].consuming) =>
            /\ iters[i].yielded \o Collect(heap, iters[i].cursor, MaxNodes + 1)
                 = iters[i].snap
            /\ iters[i].done => iters[i].yielded = iters[i].snap

C9_Witness ==
    \E i \in IterIds :
        /\ iters[i].consuming /\ iters[i].done /\ dropped
        /\ iters[i].yielded = <<1, 2>>

\* C10: with the list not modified, every iterator made by iter(), however
\* the next() calls of the iterators are interleaved, yields the full
\* head-to-tail sequence exactly once (len() values, then None): what it has
\* yielded followed by what it is still going to yield is that sequence.
C10_Independent ==
    \A i \in IterIds :
        (iters[i].live /\ ~iters[i].mutated) =>
            /\ iters[i].yielded \o Collect(heap, iters[i].cursor, MaxNodes + 1)
                 = iters[i].snap
            /\ iters[i].done => iters[i].yielded = iters[i].snap
            /\ ~dropped => iters[i].snap = ForwardVals(List) /\ Len(iters[i].snap) = len

C10_Witness ==
    /\ iters[1].live /\ iters[2].live
    /\ ~iters[1].mutated /\ ~iters[2].mutated /\ ~dropped
    /\ iters[2].done /\ iters[2].yielded = <<1, 2>>
    /\ ~iters[1].done /\ iters[1].yielded = <<1>>

\* C11: next() on an iterator does not change the list: len, the head/tail
\* pair, and the data and prev/next links of every node of the list (and of
\* every other node that is still allocated) are as before, the nodes of the
\* list stay allocated, and no other iterator's cursor moves.
C11_NextFrame ==
    [][\A i \in IterIds : IterNext(i) =>
          /\ len' = len
          /\ head_and_tail' = head_and_tail
          /\ \A n \in Nodes :
                /\ n \in ListNodes(List) => heap'[n].rc > 0
                /\ heap'[n].rc > 0 =>
                      /\ heap[n].rc > 0
                      /\ heap'[n].data = heap[n].data
                      /\ heap'[n].prev = heap[n].prev
                      /\ heap'[n].next = heap[n].next
          /\ \A j \in IterIds \ {i} : iters'[j] = iters[j]]_vars

C11_Witness ==
    \E i \in IterIds :
        /\ last = Call("next", i) /\ ret # NoneVal
        /\ iters[i].cursor # Null /\ iters[i].cursor \in ListNodes(List)
        /\ len = 3 /\ ForwardVals(List) = abs

\* C12: in every reachable state, for any two nodes A and B of the list,
\* A.next references B if and only if B.prev references A.
C12_LinkSymmetry ==
    ~dropped =>
        \A a, b \in ListNodes(List) :
            (heap[a].next = b) <=> (heap[b].prev = a)

C12_Witness ==
    /\ ~dropped /\ len = 2 /\ last.op = "pop_front"
    /\ heap[head_and_tail[1]].next = head_and_tail[2]
    /\ heap[head_and_tail[2]].prev = head_and_tail[1]
    /\ \E n \in Nodes : heap[n].rc > 0 /\ n \notin ListNodes(List)

\* C13: in every reachable non-empty state the head node's prev link and the
\* tail node's next link are absent, also right after pop or pop_front has
\* promoted a neighbour to be the new tail or head.
C13_EndLinks ==
    (~dropped /\ head_and_tail # NoneHT) =>
        /\ heap[head_and_tail[1]].prev = Null
        /\ heap[head_and_tail[2]].next = Null

C13_Witness ==
    /\ ~dropped /\ last.op = "pop" /\ ret # NoneVal /\ len = 2
    /\ heap[head_and_tail[2]].next = Null
    /\ heap[head_and_tail[1]].prev = Null

\* C14: in every reachable state len is 0 if and only if the head/tail pair
\* is absent (so a present pair, the only case in which pop decrements, has
\* len >= 1), and when len is 1 both slots reference the same node.
C14_EmptyIffAbsent ==
    ~dropped =>
        /\ len >= 0
        /\ (len = 0) <=> (head_and_tail = NoneHT)
        /\ len = 1 => head_and_tail[1] = head_and_tail[2]

C14_Witness ==
    /\ ~dropped /\ last.op = "pop_front" /\ ret # NoneVal
    /\ len = 1 /\ head_and_tail[1] = head_and_tail[2]
    /\ \E i \in IterIds : iters[i].live /\ iters[i].cursor # Null

\* C15: pop and pop_front on a non-empty list take the branch that clears
\* the head/tail pair exactly when the list held one element: the link read
\* by the getter (the tail's prev for pop, the head's next for pop_front) is
\* absent if and only if len = 1, and the pair is absent afterwards if and
\* only if len was 1.
C15_ClearBranch ==
    [][/\ (Pop /\ head_and_tail # NoneHT) =>
             /\ (pop_getter(AtTail, heap, head_and_tail[2]) = Null) <=> (len = 1)
             /\ (head_and_tail' = NoneHT) <=> (len = 1)
       /\ (PopFront /\ head_and_tail # NoneHT) =>
             /\ (pop_getter(AtHead, heap, head_and_tail[1]) = Null) <=> (len = 1)
             /\ (head_and_tail' = NoneHT) <=> (len = 1)]_vars

C15_Witness ==
    /\ ~dropped /\ last.op = "pop" /\ ret # NoneVal
    /\ head_and_tail = NoneHT /\ len = 0
    /\ \E i \in IterIds : iters[i].live /\ iters[i].mutated

\* C16: push and push_front on an empty list make the new node both head and
\* tail; on a non-empty list push puts the new node in the tail slot and
\* leaves the head slot, push_front puts it in the head slot and leaves the
\* tail slot; pop on two or more elements leaves the head slot and pop_front
\* leaves the tail slot.
C16_SlotFrame ==
    [][/\ ((\E x \in Values : Push(x)) \/ (\E x \in Values : PushFront(x))) =>
             /\ head_and_tail' # NoneHT
             /\ heap[head_and_tail'[1]].rc = 0 \/ heap[head_and_tail'[2]].rc = 0
             /\ head_and_tail = NoneHT => head_and_tail'[1] = head_and_tail'[2]
       /\ ((\E x \in Values : Push(x)) /\ head_and_tail # NoneHT) =>
             /\ head_and_tail'[1] = head_and_tail[1]
             /\ heap[head_and_tail'[2]].rc = 0
       /\ ((\E x \in Values : PushFront(x)) /\ head_and_tail # NoneHT) =>
             /\ head_and_tail'[2] = head_and_tail[2]
             /\ heap[head_and_tail'[1]].rc = 0
       /\ (Pop /\ len >= 2) =>
             /\ head_and_tail' # NoneHT
             /\ head_and_tail'[1] = head_and_tail[1]
             /\ head_and_tail'[2] # head_and_tail[2]
       /\ (PopFront /\ len >= 2) =>
             /\ head_and_tail' # NoneHT
             /\ head_and_tail'[2] = head_and_tail[2]
             /\ head_and_tail'[1] # head_and_tail[1]]_vars

C16_Witness ==
    /\ ~dropped /\ last.op = "push_front" /\ len = 3
    /\ head_and_tail[1] # head_and_tail[2]
    /\ heap[head_and_tail[1]].data = 2 /\ heap[head_and_tail[2]].data = 1

\* no cycle of next links: the next chain from any allocated node ends after
\* at most as many nodes as are allocated, and an iterator's cursor is on an
\* allocated node from which next() returns one value per node of the chain
NoNextCycle ==
    /\ \A n \in Allocated(heap) :
          Len(Walk(heap, n, "next", MaxNodes + 1)) <= Cardinality(Allocated(heap))
    /\ \A i \in IterIds :
          (iters[i].live /\ iters[i].cursor # Null) =>
              /\ iters[i].cursor \in Allocated(heap)
              /\ Len(Collect(heap, iters[i].cursor, MaxNodes + 1))
                    = Len(Walk(heap, iters[i].cursor, "next", MaxNodes + 1))

\* C17: in every reachable state the next links form no cycle, and for an
\* iterator (also one whose cursor is on a node that was popped after the
\* iterator was made), once the calls that modify the list stop, repeated
\* next() calls eventually find the cursor unset and return None.
C17_Finite ==
    /\ []NoNextCycle
    /\ (<>[][~Mutation]_vars) => [](iters[1].live => <>(iters[1].cursor = Null))

C17_Witness ==
    \E i \in IterIds :
        /\ iters[i].live /\ iters[i].mutated /\ ~dropped
        /\ iters[i].cursor # Null /\ iters[i].cursor \notin ListNodes(List)
        /\ heap[iters[i].cursor].next \in ListNodes(List)
        /\ Len(Collect(heap, iters[i].cursor, MaxNodes + 1)) = 3

\* the pop call made at end w
PopAt(w) == IF w = AtHead THEN PopFront ELSE Pop

\* nothing in the list references node old after the call, and the call
\* returned old's value
Unlinked(old) ==
    /\ head_and_tail' # NoneHT => old \notin {head_and_tail'[1], head_and_tail'[2]}
    /\ \A n \in ListNodes(List') : heap'[n].prev # old /\ heap'[n].next # old
    /\ ret' = heap[old].data

\* C18 as claimed: a node removed by pop or pop_front is referenced neither
\* by the head/tail slots nor by a link of a node still in the list, so with
\* no iterator cursor on it its reference count is zero and it is
\* deallocated; the returned value is the node's.
C18_Original ==
    [][\A w \in {AtHead, AtTail} :
          (PopAt(w) /\ head_and_tail # NoneHT) =>
              LET old == head_and_tail[Index(w) + 1]
              IN  /\ Unlinked(old)
                  /\ (\A i \in IterIds : ~(iters[i].live /\ iters[i].cursor = old))
                        => heap'[old].rc = 0]_vars

\* C18 amended: a node removed by pop or pop_front is referenced neither by
\* the head/tail slots nor by a link of a node still in the list, so with no
\* iterator cursor on it or on any earlier-removed node its reference count
\* is zero and it is deallocated; the returned value is the node's.
C18_Unlinked ==
    [][\A w \in {AtHead, AtTail} :
          (PopAt(w) /\ head_and_tail # NoneHT) =>
              LET old == head_and_tail[Index(w) + 1]
              IN  /\ Unlinked(old)
                  /\ (\A i \in IterIds :
                         iters[i].live =>
                            /\ iters[i].cursor # old
                            /\ iters[i].cursor \in ListNodes(List) \cup {Null})
                        => heap'[old].rc = 0]_vars

C18_Witness ==
    /\ ~dropped /\ last.op = "pop" /\ ret # NoneVal /\ len = 2
    /\ iters[1].live /\ iters[1].cursor \in ListNodes(List)
    /\ \A i \in IterIds : iters[i].live => iters[i].cursor \in ListNodes(List) \cup {Null}
    /\ Allocated(heap) = ListNodes(List)

\* C19: no runtime borrow conflict: whatever call comes next in a reachable
\* state, no cell is mutably borrowed while it is borrowed; in particular the
\* node the setter of pop_helper mutates is never the removed node, whose
\* shared borrow is still held.
C19_NoBorrowConflict ==
    (~dropped /\ head_and_tail # NoneHT) =>
        /\ \A w \in {AtHead, AtTail} :
              /\ ~BorrowConflict(pop_borrows(List, w))
              /\ pop_borrows(List, w).mut # pop_borrows(List, w).held
              /\ FreeIds(heap) # {} =>
                    \A b \in push_borrows(List, w) : ~BorrowConflict(b)
        /\ \A i \in IterIds :
              iters[i].live => ~BorrowConflict(next_borrows(iters[i].cursor))

C19_Witness ==
    /\ ~dropped /\ last.op = "pop" /\ ret # NoneVal /\ len = 2
    /\ pop_borrows(List, AtTail).mut = {head_and_tail[1]}
    /\ pop_borrows(List, AtTail).held = {head_and_tail[2]}
    /\ \E i \in IterIds : iters[i].live /\ iters[i].cursor = head_and_tail[2]

\* C20: when the list is dropped with no iterator alive, every node of the
\* list is deallocated, whatever the length of the list.
C20_DropFreesAll ==
    (dropped /\ \A i \in IterIds : ~iters[i].live) => Allocated(heap) = {}

====
